---- MODULE Spec2Model ----
(***************************************************************************)
(* Tabulated RPV BSDF (src/plugins/src/bsdfs/rpv.cpp) and its cosine-     *)
(* hemisphere predecessor (rpv_old.cpp); the two-sided BiLambertian BSDF  *)
(* (bilambertian.cpp); the spherical-shell volumes (sphericalgrid.cpp,    *)
(* grid_spherical.cpp).                                                    *)
(*                                                                         *)
(* Numbers.  Floating-point values are modelled exactly: a Float is a     *)
(* record [k, n, d, e]; k = "fin" stands for (n + e*eps)/d with eps a     *)
(* positive infinitesimal (dr::Smallest, and the gap of                    *)
(* dr::OneMinusEpsilon below 1), k = "inf" for +/-infinity (sign in n),   *)
(* k = "nan" for NaN.  Rounding is not modelled.                           *)
(*                                                                         *)
(* Angles.  Zenith angles are integers in units of (pi/2)/HalfPi, azimuth *)
(* angles integers in units of 2*pi/TwoPi.  A direction is the record     *)
(* [theta, phi] of its spherical coordinates; cos(theta) > 0 iff          *)
(* theta < HalfPi.                                                         *)
(***************************************************************************)
EXTENDS Integers, Sequences, FiniteSets, TLC

(* ------------------------------ bounds --------------------------------- *)
\* grid resolution per axis (32 in the source; every literal 31/32 follows it)
GridN == 3
\* zenith units per zenith cell
ThetaSub == 2
\* azimuth units per azimuth half cell
PhiHalfSub == 1
\* uniform samples are multiples of 1/UDen
UDen == 4
\* largest rho_0 tried
MaxRho == 1
\* a large value found outside the buffers
GarbageBig == 9
\* threads calling into one RPV instance
NThreads == 2
\* reflectance and transmittance are multiples of 1/ReflDen
ReflDen == 2
\* largest shell radius tried
MaxRadius == 3

(* ------------------------------ floats --------------------------------- *)
Fin(n, d) == [k |-> "fin", n |-> n, d |-> d, e |-> 0]
FinE(n, d, e) == [k |-> "fin", n |-> n, d |-> d, e |-> e]
NaN == [k |-> "nan", n |-> 0, d |-> 1, e |-> 0]
Inf(s) == [k |-> "inf", n |-> s, d |-> 1, e |-> 0]
\* the outcome "the read faults" of an out-of-bounds gather
Fault == [k |-> "fault", n |-> 0, d |-> 1, e |-> 0]

IsNaN(x) == x.k \in {"nan", "fault"}
IsFinite(x) == x.k = "fin"
Sgn(i) == IF i > 0 THEN 1 ELSE IF i < 0 THEN -1 ELSE 0
FSign(x) == IF x.k = "inf" THEN Sgn(x.n) ELSE IF x.n # 0 THEN Sgn(x.n) ELSE Sgn(x.e)

\* x < y (false when either is NaN)
FLess(x, y) ==
    IF IsNaN(x) \/ IsNaN(y) THEN FALSE
    ELSE IF x.k = "inf" THEN x.n < 0 /\ ~(y.k = "inf" /\ y.n < 0)
    ELSE IF y.k = "inf" THEN y.n > 0
    ELSE \/ x.n * y.d < y.n * x.d
         \/ (x.n * y.d = y.n * x.d /\ x.e * y.d < y.e * x.d)

FEq(x, y) == ~IsNaN(x) /\ ~IsNaN(y) /\ ~FLess(x, y) /\ ~FLess(y, x)

FAdd(x, y) ==
    IF IsNaN(x) \/ IsNaN(y) THEN NaN
    ELSE IF x.k = "inf" THEN (IF y.k = "inf" /\ y.n # x.n THEN NaN ELSE x)
    ELSE IF y.k = "inf" THEN y
    ELSE IF x.d = y.d THEN FinE(x.n + y.n, x.d, x.e + y.e)
    ELSE FinE(x.n * y.d + y.n * x.d, x.d * y.d, x.e * y.d + y.e * x.d)

FNeg(x) == IF IsNaN(x) THEN NaN ELSE [x EXCEPT !.n = -x.n, !.e = -x.e]
FSub(x, y) == FAdd(x, FNeg(y))

\* second-order infinitesimals are dropped
FMul(x, y) ==
    IF IsNaN(x) \/ IsNaN(y) THEN NaN
    ELSE IF x.k = "inf" \/ y.k = "inf"
         THEN (IF FSign(x) * FSign(y) = 0 THEN NaN ELSE Inf(FSign(x) * FSign(y)))
    ELSE FinE(x.n * y.n, x.d * y.d, x.e * y.n + x.n * y.e)

\* 1.0 / x for a finite x without infinitesimal part (1/0 = +inf)
FRecip(x) ==
    IF x.n = 0 THEN Inf(1)
    ELSE IF x.n > 0 THEN Fin(x.d, x.n) ELSE Fin(-x.d, -x.n)

Zero == Fin(0, 1)
select(c, a, b) == IF c THEN a ELSE b

(* ------------------------------ angles --------------------------------- *)
HalfPi == GridN * ThetaSub
TwoPi == 2 * GridN * PhiHalfSub
Pi == TwoPi \div 2

Thetas == 0 .. 2 * HalfPi
Poles == {0, 2 * HalfPi}
\* spherical-to-Cartesian: the azimuth is taken modulo 2*pi and a direction on
\* the z axis has no azimuth
Dir(theta, phi) == [theta |-> theta, phi |-> IF theta \in Poles THEN 0 ELSE phi % TwoPi]
Dirs == {Dir(t, p) : t \in Thetas, p \in 0 .. TwoPi - 1}

\* Frame3f::cos_theta(v) > 0
CosThetaPos(v) == v.theta < HalfPi
\* dr::acos(Frame3f::cos_theta(v))
AcosCosTheta(v) == v.theta
\* dr::acos(Frame3f::cos_phi(v)): acos ranges over [0, pi], so an azimuth in
\* (pi, 2*pi) comes back mirrored; at the poles cos_phi is 1
AcosCosPhi(v) == IF v.theta \in Poles THEN 0
                 ELSE IF v.phi <= Pi THEN v.phi ELSE TwoPi - v.phi

(* --------------------------- unsigned indices --------------------------- *)
\* A UInt32 is kept as its residue modulo 2^32 of least absolute value: -n
\* stands for 2^32 - n.  Sums and products of the small values met here stay
\* the residue of the wrapped result.
U32Positive(r) == r # 0
\* dr::floor2int<UInt32>(num / den).  Converting a negative float to an
\* unsigned integer is undefined: conv names what the build does, "wrap"
\* (conversion through a signed integer) or "sat" (saturation at 0).
Convs == {"wrap", "sat"}
floor2int(num, den, conv) ==
    LET f == num \div den
    IN IF f >= 0 \/ conv = "wrap" THEN f ELSE 0

Min(a, b) == IF a < b THEN a ELSE b
RECURSIVE log2i(_)
log2i(n) == IF n <= 1 THEN 0 ELSE 1 + log2i(n \div 2)

\* dr::binary_search(start, end, pred): pred is the function index |-> mask.
\* Returns the index found and the indices at which pred was evaluated.
RECURSIVE bs_iter(_, _, _, _, _)
bs_iter(start, end, it, pred, probes) ==
    IF it = 0 THEN [idx |-> start, probes |-> probes]
    ELSE LET middle == (start + end) \div 2
             cond == pred[middle]
         IN bs_iter(IF cond THEN Min(middle + 1, end) ELSE start,
                    IF cond THEN end ELSE middle,
                    it - 1, pred, probes \cup {middle})
binary_search(start_, end_, pred) ==
    bs_iter(start_, end_, IF start_ < end_ THEN log2i(end_ - start_) + 1 ELSE 0,
            pred, {})

\* dr::gather<Float>(buf, index, mask): a masked-out lane reads nothing and
\* yields 0; a read outside the buffer is undefined and yields ub
InBuf(buf, index) == index \in DOMAIN buf
gather(buf, index, mask, ub) ==
    IF ~mask THEN Zero
    ELSE IF InBuf(buf, index) THEN Fin(buf[index], 1) ELSE ub
\* what an out-of-bounds read can produce: a fault, or whatever lies there
UBReads == {Fault, Zero, Fin(GarbageBig, 1), NaN}

(* ----------------------------- construction ---------------------------- *)
m_size == <<GridN, GridN, GridN>>
hprod(s) == s[1] * s[2] * s[3]
step_theta_i == m_size[2] * m_size[3]
step_theta_o == m_size[3]

\* material parameters: rho_0 >= 0 and the asymmetry g (sign only)
Props == [rho_0 : 0 .. MaxRho, g : {-1, 0, 1}]

\* The reflectance kernel, abstracted to an integer-valued function with the
\* kernel's structure: proportional to rho_0, a Minnaert-like factor of the
\* two zeniths, a phase factor of the relative azimuth that is even in it
\* (only cos(phi1 - phi2) enters) and absent when either direction is on the
\* z axis; below the horizon the power of a negative base is NaN.
RelPhi(wi, wo) ==
    IF wi.theta \in Poles \/ wo.theta \in Poles THEN 0
    ELSE LET dphi == (wo.phi - wi.phi) % TwoPi
         IN IF dphi <= Pi THEN dphi ELSE TwoPi - dphi
eval_rpv(pr, wi, wo) ==
    IF ~CosThetaPos(wi) \/ ~CosThetaPos(wo) THEN NaN
    ELSE LET minnaert == 1 + (((wi.theta + wo.theta) \div ThetaSub) % 2)
             rel == RelPhi(wi, wo)
             F == IF pr.g = 0 THEN 1
                  ELSE IF pr.g > 0 THEN 1 + rel ELSE 1 + (Pi - rel)
         IN Fin(pr.rho_0 * minnaert * F, 1)

\* m_data[l], l = (i * N_theta_o + j) * N_phi + k
CellValue(pr, l) ==
    LET i == l \div step_theta_i
        j == (l \div step_theta_o) % m_size[2]
        k == l % m_size[3]
        theta_i == (HalfPi * i) \div m_size[1]
        theta_o == (HalfPi * j) \div m_size[2]
        phi == (TwoPi * k) \div m_size[3]
    IN eval_rpv(pr, Dir(theta_i, 0), Dir(theta_o, phi)).n
BuildData(pr) == [l \in 0 .. hprod(m_size) - 1 |-> CellValue(pr, l)]

\* accum_cond after the z-th step of a slice starting at base
RECURSIVE accum_cond(_, _, _)
accum_cond(data, base, z) ==
    IF z = 0 THEN data[base] ELSE accum_cond(data, base, z - 1) + data[base + z]
\* the slice written without accumulating
BuildCondCdfNoAccum(data) == [l \in 0 .. hprod(m_size) - 1 |-> data[l]]
BuildCondCdf(data) ==
    [l \in 0 .. hprod(m_size) - 1 |-> accum_cond(data, l - (l % m_size[3]), l % m_size[3])]

RECURSIVE SumTo(_, _)
SumTo(f, n) == IF n < 0 THEN 0 ELSE f[n] + SumTo(f, n - 1)

\* accum_marg_theta_i += accum_cond, once per cell, in storage order
BuildMargThetaI(data) ==
    LET cond == BuildCondCdf(data)
    IN [x \in 0 .. m_size[1] - 1 |-> SumTo(cond, (x + 1) * step_theta_i - 1)]

\* accum_marg_theta_o += m_data[..], loop order y, x, z
MargThetaOAddr(n) ==
    LET y == n \div (m_size[1] * m_size[3])
        x == (n \div m_size[3]) % m_size[1]
        z == n % m_size[3]
    IN x * step_theta_i + y * step_theta_o + z
\* the marginal accumulated from the running conditional sums
BuildMargThetaOFromCond(data) ==
    LET cond == BuildCondCdf(data)
        visited == [n \in 0 .. hprod(m_size) - 1 |-> cond[MargThetaOAddr(n)]]
    IN [y \in 0 .. m_size[2] - 1 |-> SumTo(visited, (y + 1) * m_size[1] * m_size[3] - 1)]
BuildMargThetaO(data) ==
    LET visited == [n \in 0 .. hprod(m_size) - 1 |-> data[MargThetaOAddr(n)]]
    IN [y \in 0 .. m_size[2] - 1 |-> SumTo(visited, (y + 1) * m_size[1] * m_size[3] - 1)]

VARIABLES props, m_data, m_cond_cdf, m_marg_theta_i_cdf, m_marg_theta_o_cdf,
          m_normalization, m_inv_normalization, call, chk,
          thr, m_reflectance, m_transmittance, bl, vol
vars == <<props, m_data, m_cond_cdf, m_marg_theta_i_cdf, m_marg_theta_o_cdf,
          m_normalization, m_inv_normalization, call, chk,
          thr, m_reflectance, m_transmittance, bl, vol>>
\* the state of the other plugin instances and of the calling threads
others == <<thr, m_reflectance, m_transmittance, bl, vol>>
tables == <<props, m_data, m_cond_cdf, m_marg_theta_i_cdf, m_marg_theta_o_cdf,
            m_normalization, m_inv_normalization>>

\* RPV::RPV
RPV(pr) ==
    LET data == BuildData(pr)
        marg_theta_o_cdf == BuildMargThetaO(data)
        accum_marg_theta_o == marg_theta_o_cdf[m_size[2] - 1]
    IN /\ props = pr
       /\ m_data = data
       /\ m_cond_cdf = BuildCondCdf(data)
       /\ m_marg_theta_i_cdf = BuildMargThetaI(data)
       /\ m_marg_theta_o_cdf = marg_theta_o_cdf
       /\ m_inv_normalization = Fin(accum_marg_theta_o, 1)
       /\ m_normalization = FRecip(Fin(accum_marg_theta_o, 1))

(* ------------------------------- calls --------------------------------- *)
\* the record of one call: its inputs, the grid indices it derived, the
\* buffer indices it read, and what it returned
CallRec(op, wi, wo, ds, ii, io, ip, creads, mreads, p, w, fault) ==
    [op |-> op, wi |-> wi, wo |-> wo, ds |-> ds,
     idx_theta_i |-> ii, idx_theta_o |-> io, idx_phi |-> ip,
     cond_reads |-> creads, marg_reads |-> mreads,
     pdf |-> p, value |-> w, fault |-> fault]
NoCall == CallRec("none", Dir(0, 0), Dir(0, 0), <<Zero, Zero>>, 0, 0, 0, {}, {},
                  Zero, Zero, FALSE)
\* a call that faulted returns nothing
Faulted(op, wi, wo, ds, creads, mreads) ==
    CallRec(op, wi, wo, ds, 0, 0, 0, creads, mreads, Zero, Zero, TRUE)

\* uniform variates of [0, 1): the multiples of 1/UDen and the largest float
\* below 1
Smallest == FinE(0, 1, 1)
OneMinusEpsilon == FinE(1, 1, -1)
UGrid == {Fin(k, UDen) : k \in 0 .. UDen - 1}
U == UGrid \cup {OneMinusEpsilon}
clamp(x, lo, hi) == IF FLess(x, lo) THEN lo ELSE IF FLess(hi, x) THEN hi ELSE x

\* the literals 31 (end of the phi search) and 32.f (phi cells per turn)
PhiSearchEnd == GridN - 1
PhiDivisor == GridN

\* |cos(theta)| of a direction, piecewise linear in theta
AbsCosTheta(v) ==
    Fin(IF v.theta <= HalfPi THEN HalfPi - v.theta ELSE v.theta - HalfPi, HalfPi)

\* RPV::sample (active lane)
sample(wi, ds, ub) ==
    LET active == TRUE
        cos_pos == CosThetaPos(wi)
        theta_i == AcosCosTheta(wi)
        phi_i == AcosCosPhi(wi)
        idx_theta_i == floor2int(theta_i * m_size[1], HalfPi, "wrap")
        offset_theta_i == idx_theta_i * m_size[2] * m_size[3]
        smp == <<clamp(ds[1], Smallest, OneMinusEpsilon),
                 clamp(ds[2], Smallest, OneMinusEpsilon)>>
        sample_x == FAdd(smp[1], m_inv_normalization)
        so == binary_search(0, m_size[2] - 1,
                  [idx \in 0 .. m_size[2] - 1 |->
                      FLess(gather(m_marg_theta_o_cdf, idx, active, ub), sample_x)])
        idx_theta_o == so.idx
        offset_theta_o == idx_theta_o * m_size[3]
        theta_o == (idx_theta_o * HalfPi) \div m_size[2]
        tot == offset_theta_o + offset_theta_i + m_size[3] - 1
        sample_y == FMul(smp[2], gather(m_cond_cdf, tot, active, ub))
        sp == binary_search(0, PhiSearchEnd,
                  [idx \in 0 .. PhiSearchEnd |->
                      FLess(gather(m_cond_cdf, idx + offset_theta_i + offset_theta_o,
                                   active, ub), sample_y)])
        idx_phi == sp.idx
        i0 == offset_theta_i + offset_theta_o + idx_phi - 1
        i1 == offset_theta_i + offset_theta_o + idx_phi
        cond_cdf_0 == gather(m_cond_cdf, i0, active /\ U32Positive(idx_phi), ub)
        cond_cdf_1 == gather(m_cond_cdf, i1, active, ub)
        phi_o == ((idx_phi * TwoPi) \div PhiDivisor) + phi_i
        wo == Dir(theta_o, phi_o)
        bs_pdf == select(cos_pos, FMul(FSub(cond_cdf_1, cond_cdf_0), m_normalization), Zero)
        value == eval_rpv(props, wi, wo)
        weight == select(active /\ cos_pos /\ FLess(Zero, bs_pdf), value, Zero)
        creads == {tot} \cup {q + offset_theta_i + offset_theta_o : q \in sp.probes}
                  \cup (IF U32Positive(idx_phi) THEN {i0} ELSE {}) \cup {i1}
        mreads == so.probes
        oob == \/ \E r \in creads : ~InBuf(m_cond_cdf, r)
               \/ \E r \in mreads : ~InBuf(m_marg_theta_o_cdf, r)
    IN IF oob /\ ub = Fault THEN Faulted("sample", wi, wi, ds, creads, mreads)
       ELSE CallRec("sample", wi, wo, ds, idx_theta_i, idx_theta_o, idx_phi,
                    creads, mreads, bs_pdf, weight, FALSE)

\* RPV::eval
eval(wi, wo) ==
    LET value == eval_rpv(props, wi, wo)
        active == CosThetaPos(wi) /\ CosThetaPos(wo)
    IN CallRec("eval", wi, wo, <<Zero, Zero>>, 0, 0, 0, {}, {}, Zero,
               select(active, FMul(value, AbsCosTheta(wo)), Zero), FALSE)

\* RPV::pdf (active lane)
pdf(wi, wo, conv, ub) ==
    LET active == TRUE
        theta_i == AcosCosTheta(wi)
        theta_o == AcosCosTheta(wo)
        phi_i == AcosCosPhi(wi)
        phi_o == AcosCosPhi(wo)
        phi == phi_o - phi_i
        idx_theta_i == select(CosThetaPos(wi), floor2int(theta_i * m_size[1], HalfPi, conv), 0)
        idx_theta_o == select(CosThetaPos(wo), floor2int(theta_o * m_size[2], HalfPi, conv), 0)
        idx_phi == floor2int(phi * m_size[3], TwoPi, conv)
        offset_theta_i == idx_theta_i * m_size[2] * m_size[3]
        offset_theta_o == idx_theta_o * m_size[3]
        i0 == offset_theta_i + offset_theta_o + idx_phi - 1
        i1 == offset_theta_i + offset_theta_o + idx_phi
        cond_cdf_0 == gather(m_cond_cdf, i0, active /\ U32Positive(idx_phi), ub)
        cond_cdf_1 == gather(m_cond_cdf, i1, active, ub)
        p == FMul(FSub(cond_cdf_1, cond_cdf_0), m_normalization)
        creads == (IF U32Positive(idx_phi) THEN {i0} ELSE {}) \cup {i1}
        oob == \E r \in creads : ~InBuf(m_cond_cdf, r)
    IN IF oob /\ ub = Fault THEN Faulted("pdf", wi, wo, <<Zero, Zero>>, creads, {})
       ELSE CallRec("pdf", wi, wo, <<Zero, Zero>>, idx_theta_i, idx_theta_o, idx_phi,
                    creads, {}, select(CosThetaPos(wi) /\ CosThetaPos(wo), p, Zero),
                    Zero, FALSE)

\* the undefined outcomes a pdf call on (wi, wo) can meet
PdfConvs(wi, wo) == IF AcosCosPhi(wo) < AcosCosPhi(wi) THEN Convs ELSE {"wrap"}
PdfUBs(wi, wo, conv) ==
    IF \E r \in pdf(wi, wo, conv, Zero).cond_reads : ~InBuf(m_cond_cdf, r)
    THEN UBReads ELSE {Zero}
SampleUBs(wi, ds) ==
    IF \E r \in sample(wi, ds, Zero).cond_reads : ~InBuf(m_cond_cdf, r)
    THEN UBReads ELSE {Zero}

(* ------------------------------- RPV_old -------------------------------- *)
Abs(i) == IF i < 0 THEN -i ELSE i
\* warp::square_to_cosine_hemisphere: concentric disk mapping, then the
\* projection onto the hemisphere (zenith linear in the disk radius)
square_to_cosine_hemisphere(ds) ==
    LET x == 2 * ds[1].n - UDen
        y == 2 * ds[2].n - UDen
        is_zero == x = 0 /\ y = 0
        quadrant_1_or_3 == Abs(x) < Abs(y)
        r == IF quadrant_1_or_3 THEN y ELSE x
        rp == IF quadrant_1_or_3 THEN x ELSE y
        phi0 == IF is_zero THEN 0 ELSE (TwoPi * rp) \div (8 * r)
        phi1 == IF quadrant_1_or_3 THEN (TwoPi \div 4) - phi0 ELSE phi0
        phi == IF r < 0 THEN phi1 + Pi ELSE phi1
    IN Dir((Abs(r) * HalfPi) \div UDen, phi % TwoPi)
\* warp::square_to_cosine_hemisphere_pdf, in units of 1/pi
square_to_cosine_hemisphere_pdf(v) == Fin(HalfPi - v.theta, HalfPi)

\* RPV_old::sample
old_sample(wi, ds) ==
    LET active == CosThetaPos(wi)
        wo == square_to_cosine_hemisphere(ds)
        bs_pdf == square_to_cosine_hemisphere_pdf(wo)
        value == eval_rpv(props, wi, wo)
    IN CallRec("old_sample", wi, wo, ds, 0, 0, 0, {}, {}, bs_pdf,
               select(active /\ FLess(Zero, bs_pdf), value, Zero), FALSE)
\* RPV_old::eval
old_eval(wi, wo) == [eval(wi, wo) EXCEPT !.op = "old_eval"]
\* RPV_old::pdf
old_pdf(wi, wo) ==
    CallRec("old_pdf", wi, wo, <<Zero, Zero>>, 0, 0, 0, {}, {},
            select(CosThetaPos(wi) /\ CosThetaPos(wo),
                   square_to_cosine_hemisphere_pdf(wo), Zero), Zero, FALSE)

(* ----------------------------- BiLambertian ---------------------------- *)
\* reflectance and transmittance textures: constants in [0, 1]
Refl == {Fin(n, ReflDen) : n \in 0 .. ReflDen}
\* ctx.is_enabled(DiffuseReflection, 0), ctx.is_enabled(DiffuseTransmission, 1)
Ctxs == [has_reflect : BOOLEAN, has_transmit : BOOLEAN]
FullCtx == [has_reflect |-> TRUE, has_transmit |-> TRUE]

\* BiLambertian::BiLambertian
BiLambertian(r, t) ==
    /\ m_reflectance = r
    /\ m_transmittance = t

\* Vector3f(wo.x(), wo.y(), -wo.z())
FlipZ(v) == Dir(2 * HalfPi - v.theta, v.phi)
\* ek::sign of Frame3f::cos_theta(v): 1 or -1, never 0; zsign is what it
\* makes of a zero cosine (the sign bit of the zero)
ek_sign(v, zsign) ==
    IF v.theta < HalfPi THEN 1 ELSE IF v.theta > HalfPi THEN -1 ELSE zsign
ZeroSigns(v) == IF v.theta = HalfPi THEN {1, -1} ELSE {1}

\* hmean(r / (r + t)) with NaN (r = t = 0) replaced by 0
reflection_sampling_weight(r, t) ==
    LET w == FMul(r, FRecip(FAdd(r, t)))
    IN IF IsNaN(w) THEN Zero ELSE w
\* 1 - hmean(r / (r + t)) with NaN replaced by 0
transmission_sampling_weight(r, t) ==
    LET w == FSub(Fin(1, 1), FMul(r, FRecip(FAdd(r, t))))
    IN IF IsNaN(w) THEN Zero ELSE w

\* the sampled direction kept on the side of wi
never_flip_behind(cos_theta_i_pos, wo) == wo
\* "Flip the outgoing direction if the incoming comes from behind"
flip_if_behind(cos_theta_i_pos, wo) == select(cos_theta_i_pos, wo, FlipZ(wo))
\* "Flip the outgoing direction if transmission was selected"
flip_if_transmitted(selected_r, wo) == select(selected_r, wo, FlipZ(wo))

\* the record of one BiLambertian call; values and densities in units of 1/pi
BLRec(op, ctx, wi, wo, sample1, sample2, comp, p, w, zs, zeroed) ==
    [op |-> op, ctx |-> ctx, wi |-> wi, wo |-> wo, sample1 |-> sample1,
     sample2 |-> sample2, sampled_component |-> comp, pdf |-> p, value |-> w,
     zs |-> zs, zeroed |-> zeroed]
NoBL == BLRec("none", FullCtx, Dir(0, 0), Dir(0, 0), Zero, <<Zero, Zero>>, 0,
              Zero, Zero, <<1, 1>>, FALSE)

\* BiLambertian::sample (active lane)
bl_sample(ctx, wi, sample1, sample2) ==
    IF ~ctx.has_reflect /\ ~ctx.has_transmit
    THEN BLRec("sample", ctx, wi, Dir(HalfPi, 0), sample1, sample2, 0, Zero, Zero,
               <<1, 1>>, TRUE)
    ELSE
    LET cos_theta_i_pos == CosThetaPos(wi)
        wo == square_to_cosine_hemisphere(sample2)
        r == m_reflectance
        t == m_transmittance
        rw == reflection_sampling_weight(r, t)
        tw == transmission_sampling_weight(r, t)
        selected_r == FLess(sample1, rw)
        value == IF selected_r THEN FMul(r, FRecip(rw)) ELSE FMul(t, FRecip(tw))
        bs_pdf == FMul(square_to_cosine_hemisphere_pdf(wo), IF selected_r THEN rw ELSE tw)
        bs_wo == flip_if_transmitted(selected_r, flip_if_behind(cos_theta_i_pos, wo))
    IN BLRec("sample", ctx, wi, bs_wo, sample1, sample2, select(selected_r, 0, 1),
             bs_pdf, select(FLess(Zero, bs_pdf), value, Zero), <<1, 1>>, FALSE)

\* Mask(ek::eq(ek::sign(cos_theta_i), ek::sign(cos_theta_o)))
is_reflect(wi, wo, zi, zo) == ek_sign(wi, zi) = ek_sign(wo, zo)
\* Mask(ek::neq(ek::sign(cos_theta_i), ek::sign(cos_theta_o)))
is_transmit(wi, wo, zi, zo) == ek_sign(wi, zi) # ek_sign(wo, zo)

\* BiLambertian::eval (active lane)
bl_eval(ctx, wi, wo, zi, zo) ==
    LET reflected == IF ctx.has_reflect /\ is_reflect(wi, wo, zi, zo)
                     THEN m_reflectance ELSE Zero
        result == IF ctx.has_transmit /\ is_transmit(wi, wo, zi, zo)
                  THEN m_transmittance ELSE reflected
    IN BLRec("eval", ctx, wi, wo, Zero, <<Zero, Zero>>, 0, Zero,
             IF ~ctx.has_reflect /\ ~ctx.has_transmit THEN Zero
             ELSE FMul(result, AbsCosTheta(wo)),
             <<zi, zo>>, FALSE)

\* BiLambertian::pdf (active lane)
bl_pdf(ctx, wi, wo, zi, zo) ==
    LET wo_flip == IF wo.theta <= HalfPi THEN wo ELSE FlipZ(wo)
        rw == reflection_sampling_weight(m_reflectance, m_transmittance)
        tw == transmission_sampling_weight(m_reflectance, m_transmittance)
        result == square_to_cosine_hemisphere_pdf(wo_flip)
        reflected == IF ctx.has_reflect /\ is_reflect(wi, wo, zi, zo)
                     THEN FMul(result, rw) ELSE result
        transmitted == IF ctx.has_transmit /\ is_transmit(wi, wo, zi, zo)
                       THEN FMul(reflected, tw) ELSE reflected
    IN BLRec("pdf", ctx, wi, wo, Zero, <<Zero, Zero>>, 0,
             IF ~ctx.has_reflect /\ ~ctx.has_transmit THEN Zero ELSE transmitted,
             Zero, <<zi, zo>>, FALSE)

(* ------------------------- SphericalGridVolume -------------------------- *)
Radii == 0 .. MaxRadius
\* one volume object: st is "none" before construction, "built" after it,
\* "thrown" when the constructor threw; x is the radial grid coordinate the
\* last eval computed and out the branch whose value it returned
VolRec(st, plugin, rmin, rmax, rmin_rel, r, x, out) ==
    [st |-> st, plugin |-> plugin, m_rmin |-> rmin, m_rmax |-> rmax,
     m_rmin_rel |-> rmin_rel, r |-> r, x |-> x, out |-> out]
NoVol == VolRec("none", "none", 0, 0, Zero, 0, Zero, "none")
FDiv(a, b) == FMul(Fin(a, 1), FRecip(Fin(b, 1)))

\* SphericalGridVolume::SphericalGridVolume of sphericalgrid.cpp
SphericalGridVolume(rmin, rmax) ==
    IF rmin > rmax
    THEN VolRec("thrown", "sphericalgrid", rmin, rmax, Zero, 0, Zero, "none")
    ELSE VolRec("built", "sphericalgrid", rmin, rmax, FDiv(rmin, rmax), 0, Zero, "none")
\* SphericalGridVolume::SphericalGridVolume of grid_spherical.cpp
GridSphericalVolume(rmin, rmax) ==
    VolRec("built", "grid_spherical", rmin, rmax, FDiv(rmin, rmax), 0, Zero, "none")
\* SphericalGridVolume::eval at a point of magnitude r (both files)
vol_eval(v, r) ==
    [v EXCEPT !.r = r,
              !.x = FDiv(r - v.m_rmin, v.m_rmax - v.m_rmin),
              !.out = IF r < v.m_rmin THEN "fillmin"
                      ELSE IF r > v.m_rmax THEN "fillmax" ELSE "gridvol"]

(* ------------------------------- threads -------------------------------- *)
Threads == 1 .. NThreads
\* what a thread asks of the shared RPV instance, with the undefined
\* outcomes its call will meet
Request(op, wi, wo, ds, conv, ub) ==
    [op |-> op, wi |-> wi, wo |-> wo, ds |-> ds, conv |-> conv, ub |-> ub]
\* the call a request stands for, run on the members as they are now
Result(req) ==
    IF req.op = "sample" THEN sample(req.wi, req.ds, req.ub)
    ELSE IF req.op = "eval" THEN eval(req.wi, req.wo)
    ELSE pdf(req.wi, req.wo, req.conv, req.ub)
\* pc: "idle", "running" (called, nothing read yet) or "done" (returned);
\* alone is what the call returns when nothing runs beside it, res what it
\* returned, overlapped whether another call was in flight when it returned
ThreadRec(pc, req, alone, res, overlapped) ==
    [pc |-> pc, req |-> req, alone |-> alone, res |-> res, overlapped |-> overlapped]
NoRequest == Request("none", Dir(0, 0), Dir(0, 0), <<Zero, Zero>>, "wrap", Zero)
IdleThread == ThreadRec("idle", NoRequest, NoCall, NoCall, FALSE)
\* directions and samples the threads use: one wi on either side of the
\* horizon test, and the wo for which pdf meets a negative azimuth difference
ThreadWi == {Dir(1, 1), Dir(HalfPi, 0)}
ThreadWo == {Dir(0, 0)}
ThreadDs == {<<Zero, OneMinusEpsilon>>}
Requests ==
    {Request("sample", wi, wi, ds, "wrap", ub) :
        wi \in ThreadWi, ds \in ThreadDs, ub \in UBReads}
    \cup {Request("eval", wi, wo, <<Zero, Zero>>, "wrap", Zero) :
            wi \in ThreadWi, wo \in ThreadWo}
    \cup {Request("pdf", wi, wo, <<Zero, Zero>>, conv, ub) :
            wi \in ThreadWi, wo \in ThreadWo, conv \in Convs, ub \in UBReads}
\* the requests whose undefined outcomes can occur
Feasible(req) ==
    IF req.op = "sample" THEN req.ub \in SampleUBs(req.wi, req.ds)
    ELSE IF req.op = "pdf"
         THEN req.conv \in PdfConvs(req.wi, req.wo)
              /\ req.ub \in PdfUBs(req.wi, req.wo, req.conv)
    ELSE TRUE
\* a call that leaves a member rescaled
MembersRescaled == /\ m_inv_normalization' = Fin(1, 1)
                   /\ UNCHANGED <<props, m_data, m_cond_cdf, m_marg_theta_i_cdf,
                                  m_marg_theta_o_cdf, m_normalization>>
\* sample, eval and pdf are const: a call writes no member
MembersAfterCall == UNCHANGED tables

(* ------------------------------ behaviour ------------------------------- *)
\* no thread is calling, the BiLambertian instance has the default
\* reflectance and transmittance of 0.5 and no volume is constructed
OthersIdle ==
    /\ thr = [t \in Threads |-> IdleThread]
    /\ BiLambertian(Fin(1, 2), Fin(1, 2))
    /\ bl = NoBL
    /\ vol = NoVol

Init ==
    /\ \E pr \in Props : RPV(pr)
    /\ call = NoCall
    /\ chk = NoCall
    /\ OthersIdle

Idle == call.op = "none"

Sample ==
    /\ Idle
    /\ \E wi \in Dirs, u1 \in U, u2 \in U :
         \E ub \in SampleUBs(wi, <<u1, u2>>) : call' = sample(wi, <<u1, u2>>, ub)
    /\ UNCHANGED <<tables, chk, others>>

Eval ==
    /\ Idle
    /\ \E wi \in Dirs, wo \in Dirs : call' = eval(wi, wo)
    /\ UNCHANGED <<tables, chk, others>>

Pdf ==
    /\ Idle
    /\ \E wi \in Dirs, wo \in Dirs :
         \E conv \in PdfConvs(wi, wo) :
           \E ub \in PdfUBs(wi, wo, conv) : call' = pdf(wi, wo, conv, ub)
    /\ UNCHANGED <<tables, chk, others>>

\* pdf queried for the direction the last sample call returned
PdfOfSampled ==
    /\ call.op = "sample" /\ ~call.fault
    /\ chk.op = "none"
    /\ \E conv \in PdfConvs(call.wi, call.wo) :
         \E ub \in PdfUBs(call.wi, call.wo, conv) :
           chk' = pdf(call.wi, call.wo, conv, ub)
    /\ UNCHANGED <<tables, call, others>>

OldSample ==
    /\ Idle
    /\ \E wi \in Dirs, u1 \in UGrid, u2 \in UGrid : call' = old_sample(wi, <<u1, u2>>)
    /\ UNCHANGED <<tables, chk, others>>

OldEval ==
    /\ Idle
    /\ \E wi \in Dirs, wo \in Dirs : call' = old_eval(wi, wo)
    /\ UNCHANGED <<tables, chk, others>>

OldPdf ==
    /\ Idle
    /\ \E wi \in Dirs, wo \in Dirs : call' = old_pdf(wi, wo)
    /\ UNCHANGED <<tables, chk, others>>

Return ==
    /\ ~Idle
    /\ call' = NoCall
    /\ chk' = NoCall
    /\ UNCHANGED <<tables, others>>

Next ==
    \/ Sample
    \/ Eval
    \/ Pdf
    \/ PdfOfSampled
    \/ OldSample
    \/ OldEval
    \/ OldPdf
    \/ Return

Spec == Init /\ [][Next]_vars

(* ------------------- threads sharing one RPV instance ------------------- *)
Begin(t) ==
    /\ thr[t].pc = "idle"
    /\ \E req \in Requests :
         /\ Feasible(req)
         /\ thr' = [thr EXCEPT ![t] = ThreadRec("running", req, Result(req), NoCall, FALSE)]
    /\ UNCHANGED <<tables, call, chk, m_reflectance, m_transmittance, bl, vol>>

Finish(t) ==
    /\ thr[t].pc = "running"
    /\ thr' = [thr EXCEPT ![t] = ThreadRec("done", thr[t].req, thr[t].alone,
                                           Result(thr[t].req),
                                           \E u \in Threads \ {t} : thr[u].pc = "running")]
    /\ MembersAfterCall
    /\ UNCHANGED <<call, chk, m_reflectance, m_transmittance, bl, vol>>

Retire(t) ==
    /\ thr[t].pc = "done"
    /\ thr' = [thr EXCEPT ![t] = IdleThread]
    /\ UNCHANGED <<tables, call, chk, m_reflectance, m_transmittance, bl, vol>>

NextThreads ==
    \/ \E t \in Threads : Begin(t)
    \/ \E t \in Threads : Finish(t)
    \/ \E t \in Threads : Retire(t)

SpecThreads == Init /\ [][NextThreads]_vars

(* ----------------------- BiLambertian behaviour ------------------------- *)
InitBiLambertian ==
    /\ RPV([rho_0 |-> 1, g |-> 0])
    /\ call = NoCall
    /\ chk = NoCall
    /\ thr = [t \in Threads |-> IdleThread]
    /\ \E r \in Refl, t \in Refl : BiLambertian(r, t)
    /\ bl = NoBL
    /\ vol = NoVol

\* the azimuth of wi plays no part in BiLambertian
BLDirs == {Dir(theta, 0) : theta \in Thetas}

BLSample ==
    /\ bl.op = "none"
    /\ \E ctx \in Ctxs, wi \in BLDirs, sample1 \in UGrid, u1 \in UGrid, u2 \in UGrid :
         bl' = bl_sample(ctx, wi, sample1, <<u1, u2>>)
    /\ UNCHANGED <<tables, call, chk, thr, m_reflectance, m_transmittance, vol>>

BLEval ==
    /\ bl.op = "none"
    /\ \E ctx \in Ctxs, wi \in BLDirs, wo \in BLDirs :
         \E zi \in ZeroSigns(wi), zo \in ZeroSigns(wo) : bl' = bl_eval(ctx, wi, wo, zi, zo)
    /\ UNCHANGED <<tables, call, chk, thr, m_reflectance, m_transmittance, vol>>

BLPdf ==
    /\ bl.op = "none"
    /\ \E ctx \in Ctxs, wi \in BLDirs, wo \in BLDirs :
         \E zi \in ZeroSigns(wi), zo \in ZeroSigns(wo) : bl' = bl_pdf(ctx, wi, wo, zi, zo)
    /\ UNCHANGED <<tables, call, chk, thr, m_reflectance, m_transmittance, vol>>

BLReturn ==
    /\ bl.op # "none"
    /\ bl' = NoBL
    /\ UNCHANGED <<tables, call, chk, thr, m_reflectance, m_transmittance, vol>>

NextBiLambertian ==
    \/ BLSample
    \/ BLEval
    \/ BLPdf
    \/ BLReturn

SpecBiLambertian == InitBiLambertian /\ [][NextBiLambertian]_vars

(* --------------------------- volume behaviour --------------------------- *)
InitVolume ==
    /\ RPV([rho_0 |-> 1, g |-> 0])
    /\ call = NoCall
    /\ chk = NoCall
    /\ OthersIdle

NewSphericalGrid ==
    /\ vol.st = "none"
    /\ \E rmin \in Radii, rmax \in Radii : vol' = SphericalGridVolume(rmin, rmax)
    /\ UNCHANGED <<tables, call, chk, thr, m_reflectance, m_transmittance, bl>>

NewGridSpherical ==
    /\ vol.st = "none"
    /\ \E rmin \in Radii, rmax \in Radii : vol' = GridSphericalVolume(rmin, rmax)
    /\ UNCHANGED <<tables, call, chk, thr, m_reflectance, m_transmittance, bl>>

VolEval ==
    /\ vol.st = "built"
    /\ \E r \in 0 .. MaxRadius + 1 : vol' = vol_eval(vol, r)
    /\ UNCHANGED <<tables, call, chk, thr, m_reflectance, m_transmittance, bl>>

VolRelease ==
    /\ vol.st # "none"
    /\ vol' = NoVol
    /\ UNCHANGED <<tables, call, chk, thr, m_reflectance, m_transmittance, bl>>

NextVolume ==
    \/ NewSphericalGrid
    \/ NewGridSpherical
    \/ VolEval
    \/ VolRelease

SpecVolume == InitVolume /\ [][NextVolume]_vars

(* ------------------------------- claims --------------------------------- *)
IsZero(x) == x.k = "fin" /\ x.n = 0 /\ x.e = 0
\* the same float: the same bits, or two equal non-NaN values
SameFloat(x, y) == x = y \/ FEq(x, y)
NonNegative(x) == ~IsNaN(x) /\ ~FLess(x, Zero)
CondIndices == 0 .. hprod(m_size) - 1

\* C1: Sample/PDF consistency. When sample, called with cos(theta_i) > 0,
\* returned direction wo and density p, pdf(wi, wo) derives the grid indices
\* sample selected and returns p.
C1_SamplePdfConsistent ==
    (call.op = "sample" /\ ~call.fault /\ CosThetaPos(call.wi) /\ chk.op = "pdf")
    => /\ ~chk.fault
       /\ chk.idx_theta_i = call.idx_theta_i
       /\ chk.idx_theta_o = call.idx_theta_o
       /\ chk.idx_phi = call.idx_phi
       /\ SameFloat(chk.pdf, call.pdf)

\* C2: One-sidedness. With cos(theta_i) <= 0, sample (RPV and RPV_old) returns
\* zero weight and zero pdf, and eval and pdf return 0 for every wo.
C2_OneSided ==
    (call.op # "none" /\ ~call.fault /\ ~CosThetaPos(call.wi))
    => /\ IsZero(call.pdf)
       /\ IsZero(call.value)

\* C3: No out-of-bounds table read. Every index with which sample and pdf read
\* the conditional CDF lies in [0, N_theta_i*N_theta_o*N_phi - 1] and every
\* index with which sample reads the marginal theta_o CDF in [0, N_theta_o - 1].
C3_ReadsInBounds ==
    \A c \in {call, chk} :
        c.op \in {"sample", "pdf"}
        => /\ c.cond_reads \subseteq CondIndices
           /\ c.marg_reads \subseteq 0 .. m_size[2] - 1

\* C4: sample clamps idx_theta_i into [0, N_theta_i - 1] for every incident
\* direction, also one with cos(theta_i) <= 0.
C4_ThetaIClamped ==
    (call.op = "sample" /\ ~call.fault) => call.idx_theta_i \in 0 .. m_size[1] - 1

\* C5: pdf wraps phi_o - phi_i into [0, 2*pi), so that for upper-hemisphere wi
\* and wo idx_phi lies in [0, N_phi - 1].
C5_PhiWrapped ==
    (call.op = "pdf" /\ ~call.fault /\ CosThetaPos(call.wi) /\ CosThetaPos(call.wo))
    => call.idx_phi \in 0 .. m_size[3] - 1

\* C6: Boundary sample clamping. For (u1, u2) = (0, 0) and just below (1, 1),
\* with cos(theta_i) > 0, both searches return indices in range and the
\* returned pdf is finite and non-negative.
ExtremeSamples == {<<Zero, Zero>>, <<OneMinusEpsilon, OneMinusEpsilon>>}
C6_BoundarySamples ==
    (call.op = "sample" /\ CosThetaPos(call.wi) /\ call.ds \in ExtremeSamples)
    => /\ ~call.fault
       /\ call.idx_theta_o \in 0 .. m_size[2] - 1
       /\ call.idx_phi \in 0 .. m_size[3] - 1
       /\ IsFinite(call.pdf)
       /\ NonNegative(call.pdf)

\* C7: Degenerate normalization. A table of zero total mass never leads to an
\* infinite or NaN normalization constant, and sample with cos(theta_i) > 0
\* still returns an upper-hemisphere direction with a finite pdf.
C7_DegenerateFallback ==
    /\ IsFinite(m_normalization)
    /\ (call.op = "sample" /\ CosThetaPos(call.wi))
       => (~call.fault /\ CosThetaPos(call.wo) /\ IsFinite(call.pdf))

\* the value pdf returns for wi and the lower edge of outgoing cell n = (j, k)
PdfOfCell(wi, n) ==
    LET j == n \div m_size[3]
        k == n % m_size[3]
    IN pdf(wi, Dir((HalfPi * j) \div m_size[2], (TwoPi * k) \div m_size[3]),
           "wrap", Zero).pdf
RECURSIVE SumPdf(_, _)
SumPdf(wi, n) == IF n < 0 THEN Zero ELSE FAdd(PdfOfCell(wi, n), SumPdf(wi, n - 1))

\* C8: Normalization round-trip. For every wi with cos(theta_i) > 0 (taken in
\* the phi = 0 plane of the table), the values pdf returns over all
\* N_theta_o * N_phi outgoing cells sum to 1.
C8_PdfSumsToOne ==
    \A wi \in Dirs :
        (CosThetaPos(wi) /\ wi.phi = 0)
        => FEq(SumPdf(wi, m_size[2] * m_size[3] - 1), Fin(1, 1))

\* C9: Monotonicity. After construction from a non-negative density table
\* every cumulative table is non-decreasing along its summation axis.
C9_Monotone ==
    (\A l \in DOMAIN m_data : m_data[l] >= 0)
    => /\ \A l \in DOMAIN m_cond_cdf :
            (l % m_size[3]) # m_size[3] - 1 => m_cond_cdf[l] <= m_cond_cdf[l + 1]
       /\ \A y \in 0 .. m_size[2] - 2 : m_marg_theta_o_cdf[y] <= m_marg_theta_o_cdf[y + 1]
       /\ \A x \in 0 .. m_size[1] - 2 : m_marg_theta_i_cdf[x] <= m_marg_theta_i_cdf[x + 1]
\* a constructed table with mass, whose cumulative tables do grow
C9_Witness ==
    /\ DOMAIN m_cond_cdf = CondIndices
    /\ \E l \in DOMAIN m_data : m_data[l] > 0
    /\ \E l \in DOMAIN m_data : (l % m_size[3]) # 0 /\ m_data[l] < m_data[l - 1]
    /\ m_cond_cdf[0] < m_cond_cdf[1]
    /\ m_marg_theta_o_cdf[0] < m_marg_theta_o_cdf[1]
    /\ m_marg_theta_i_cdf[0] < m_marg_theta_i_cdf[1]

\* C10: Output constraints of sample. The returned pdf is >= 0; with
\* cos(theta_i) > 0 and a selected cell of nonzero density it is > 0; the
\* returned direction has positive z.
C10_SampleOutputs ==
    (call.op = "sample" /\ ~call.fault)
    => /\ NonNegative(call.pdf)
       /\ (/\ CosThetaPos(call.wi)
           /\ m_data[call.idx_theta_i * step_theta_i + call.idx_theta_o * step_theta_o
                     + call.idx_phi] > 0)
          => FLess(Zero, call.pdf)
       /\ CosThetaPos(call.wo)

\* the smallest element of a non-empty set of integers
Least(S) == CHOOSE x \in S : \A y \in S : x <= y
\* the storage index of cell (i, j, k)
Cell(i, j, k) == i * step_theta_i + j * step_theta_o + k
\* the sum of the whole density table, in storage order
TableSum == SumTo(m_data, hprod(m_size) - 1)

C13_HemisphereRule ==
    (/\ bl.op = "sample"
     /\ ~bl.zeroed
     /\ bl.wi.theta # HalfPi
     /\ bl.wo.theta # HalfPi)
    => LET same_side == CosThetaPos(bl.wi) = CosThetaPos(bl.wo)
           only_r == [has_reflect |-> TRUE, has_transmit |-> FALSE]
           only_t == [has_reflect |-> FALSE, has_transmit |-> TRUE]
           lobe_weight == IF bl.sampled_component = 0
                          THEN reflection_sampling_weight(m_reflectance, m_transmittance)
                          ELSE transmission_sampling_weight(m_reflectance, m_transmittance)
       IN /\ bl.sampled_component \in {0, 1}
          /\ bl.sampled_component = 0 <=> same_side
          /\ is_reflect(bl.wi, bl.wo, 1, 1) <=> bl.sampled_component = 0
          /\ is_transmit(bl.wi, bl.wo, 1, 1) <=> bl.sampled_component = 1
          /\ SameFloat(bl_eval(only_r, bl.wi, bl.wo, 1, 1).value,
                       IF bl.sampled_component = 0
                       THEN FMul(m_reflectance, AbsCosTheta(bl.wo)) ELSE Zero)
          /\ SameFloat(bl_eval(only_t, bl.wi, bl.wo, 1, 1).value,
                       IF bl.sampled_component = 1
                       THEN FMul(m_transmittance, AbsCosTheta(bl.wo)) ELSE Zero)
          /\ SameFloat(bl_pdf(FullCtx, bl.wi, bl.wo, 1, 1).pdf,
                       FMul(AbsCosTheta(bl.wo), lobe_weight))
          /\ SameFloat(bl_pdf(FullCtx, bl.wi, bl.wo, 1, 1).pdf, bl.pdf)
\* light arriving from behind and transmitted to the front, with unequal
\* reflectance and transmittance and a positive density
C13_Witness ==
    /\ bl.op = "sample"
    /\ ~bl.zeroed
    /\ bl.wi.theta > HalfPi
    /\ bl.sampled_component = 1
    /\ bl.wo.theta < HalfPi
    /\ FLess(Zero, bl.pdf)
    /\ FLess(m_transmittance, m_reflectance)

\* C14: SphericalGridVolume requires rmin < rmax: a construction with
\* rmin > rmax, and one with rmin = rmax (for which eval divides by
\* rmax - rmin = 0), is rejected with an error.
C14_RadiiOrdered ==
    vol.st = "built" => vol.m_rmin < vol.m_rmax

\* C12: No lookup on backface incidence. With cos(theta_i) <= 0 none of
\* sample, eval and pdf reads the marginal or the conditional CDF table: the
\* one-sidedness test precedes every gather.
C12_NoLookupOnBackface ==
    (call.op \in {"sample", "eval", "pdf"} /\ ~CosThetaPos(call.wi))
    => /\ call.cond_reads = {}
       /\ call.marg_reads = {}

\* the index stage 2 is described to select for the scaled sample x: the
\* smallest one whose cumulative marginal exceeds x (the last one if none)
FirstMargAbove(x) ==
    LET above == {y \in 0 .. m_size[2] - 1 : FLess(x, Fin(m_marg_theta_o_cdf[y], 1))}
    IN IF above = {} THEN m_size[2] - 1 ELSE Least(above)

\* C15: Stage 2 of sample. u1 is multiplied by the marginal total and
\* idx_theta_o is the smallest index whose cumulative marginal exceeds the
\* scaled sample, so it varies with u1.
C15_ThetaOSelected ==
    (call.op = "sample" /\ ~call.fault)
    => call.idx_theta_o
         = FirstMargAbove(FMul(clamp(call.ds[1], Smallest, OneMinusEpsilon),
                               m_inv_normalization))

\* C16: Stage 3 of sample. u2 is multiplied by the last conditional-CDF entry
\* of the selected (idx_theta_i, idx_theta_o) slice, idx_phi is the smallest k
\* in [0, N_phi - 1] with cond_cdf[i, j, k] not less than the scaled u2, and
\* phi_o is idx_phi / N_phi * 2*pi past phi_i.
C16_PhiSelected ==
    call.op = "sample"
    => /\ ~call.fault
       /\ Cell(call.idx_theta_i, call.idx_theta_o, m_size[3] - 1) \in CondIndices
       /\ LET base == Cell(call.idx_theta_i, call.idx_theta_o, 0)
              scaled == FMul(clamp(call.ds[2], Smallest, OneMinusEpsilon),
                             Fin(m_cond_cdf[base + m_size[3] - 1], 1))
              reached == {k \in 0 .. m_size[3] - 1 :
                             ~FLess(Fin(m_cond_cdf[base + k], 1), scaled)}
          IN /\ reached # {}
             /\ call.idx_phi = Least(reached)
             /\ call.wo.theta \notin Poles
                => call.wo.phi = (((call.idx_phi * TwoPi) \div m_size[3])
                                  + AcosCosPhi(call.wi)) % TwoPi

\* C17: Cell density. In sample with cos(theta_i) > 0, and in pdf with
\* cos(theta_o) > 0 as well, the density returned for cell (i, j, k) is
\* (cond_cdf[i,j,k] - cond_cdf[i,j,k-1]) * normalization, with the predecessor
\* not read when k = 0, which is DensityTable[i,j,k] * normalization.
C17_CellDensity ==
    \A c \in {call, chk} :
        (/\ c.op \in {"sample", "pdf"}
         /\ CosThetaPos(c.wi)
         /\ c.op = "pdf" => CosThetaPos(c.wo))
        => /\ ~c.fault
           /\ c.idx_phi \in 0 .. m_size[3] - 1
           /\ LET l == Cell(c.idx_theta_i, c.idx_theta_o, c.idx_phi)
              IN /\ l \in c.cond_reads
                 /\ c.idx_phi = 0 => (l - 1) \notin c.cond_reads
                 /\ c.op = "pdf" /\ c.idx_phi > 0 => c.cond_reads = {l - 1, l}
                 /\ SameFloat(c.pdf, FMul(Fin(m_data[l], 1), m_normalization))

\* C18: Slice totals. The last entry of every conditional slice is the sum of
\* the slice's densities; the last entry of either marginal CDF is the sum of
\* the whole table; marg_theta_i_cdf[x] is the sum of the densities of the
\* cells with primary index <= x.
C18_SliceTotals ==
    /\ \A i \in 0 .. m_size[1] - 1, j \in 0 .. m_size[2] - 1 :
          m_cond_cdf[Cell(i, j, m_size[3] - 1)]
            = SumTo(m_data, Cell(i, j, m_size[3] - 1)) - SumTo(m_data, Cell(i, j, 0) - 1)
    /\ m_marg_theta_o_cdf[m_size[2] - 1] = TableSum
    /\ m_marg_theta_i_cdf[m_size[1] - 1] = TableSum
    /\ \A x \in 0 .. m_size[1] - 1 :
          m_marg_theta_i_cdf[x] = SumTo(m_data, (x + 1) * step_theta_i - 1)

\* C19: Normalization relation. With nonzero total mass m_normalization is
\* the reciprocal of the table sum (normalization * total = 1) and
\* m_inv_normalization is the total mass.
C19_Normalization ==
    TableSum # 0
    => /\ IsFinite(m_normalization)
       /\ FEq(FMul(m_normalization, Fin(TableSum, 1)), Fin(1, 1))
       /\ FEq(m_inv_normalization, Fin(TableSum, 1))
\* a table built with more than unit mass, whose normalization is a proper
\* fraction
C19_Witness ==
    /\ TableSum > 1
    /\ \E l \in DOMAIN m_data : m_data[l] # m_data[0]
    /\ FLess(Zero, m_normalization)
    /\ FLess(m_normalization, Fin(1, 1))
    /\ m_inv_normalization = Fin(TableSum, 1)

\* C20: Exactness of the sampled density. For wi with cos(theta_i) > 0 the
\* pdf of a cell is the measure of the (u1, u2) that select it; in particular
\* every cell (j, k) of nonzero pdf is selected by some (u1, u2).
C20_EveryCellSelected ==
    (call.op = "sample" /\ ~call.fault /\ CosThetaPos(call.wi))
    => \A j \in 0 .. m_size[2] - 1, k \in 0 .. m_size[3] - 1 :
          FLess(Zero, PdfOfCell(Dir(call.wi.theta, 0), j * m_size[3] + k))
          => \E u1 \in U, u2 \in U :
                LET s == sample(call.wi, <<u1, u2>>, Zero)
                IN s.idx_theta_o = j /\ s.idx_phi = k

\* C21: Mutual consistency of weight, eval and pdf. Whenever sample returns
\* wo with pdf p > 0, the returned weight w satisfies w * p = eval(wi, wo),
\* eval being the reflectance value times |cos(theta_o)|.
C21_WeightTimesPdfIsEval ==
    (call.op = "sample" /\ ~call.fault /\ FLess(Zero, call.pdf))
    => FEq(FMul(call.value, call.pdf), eval(call.wi, call.wo).value)

\* the lobes a context leaves enabled, and the lobe a pair belongs to
OnlyReflect(ctx) == ctx.has_reflect /\ ~ctx.has_transmit
OnlyTransmit(ctx) == ~ctx.has_reflect /\ ctx.has_transmit
InDisabledLobe(c) ==
    \/ OnlyReflect(c.ctx) /\ is_transmit(c.wi, c.wo, c.zs[1], c.zs[2])
    \/ OnlyTransmit(c.ctx) /\ is_reflect(c.wi, c.wo, c.zs[1], c.zs[2])

\* C22: Lobe restriction in BiLambertian. With one lobe enabled sample never
\* reports the disabled lobe nor returns a nonzero weight for it, and eval
\* and pdf return 0 for pairs of the disabled lobe; with both lobes disabled
\* all three return zero.
C22_LobeRestriction ==
    /\ (bl.op = "sample" /\ OnlyReflect(bl.ctx)) => bl.sampled_component = 0
    /\ (bl.op = "sample" /\ OnlyTransmit(bl.ctx)) => bl.sampled_component = 1
    /\ (bl.op = "sample" /\ InDisabledLobe(bl)) => IsZero(bl.value)
    /\ (bl.op = "eval" /\ InDisabledLobe(bl)) => IsZero(bl.value)
    /\ (bl.op = "pdf" /\ InDisabledLobe(bl)) => IsZero(bl.pdf)
    /\ (bl.op # "none" /\ ~bl.ctx.has_reflect /\ ~bl.ctx.has_transmit)
       => IsZero(bl.value) /\ IsZero(bl.pdf)

====
